---------------------------- MODULE Spec2Model ----------------------------
(***************************************************************************)
(* The message envelope and typed-message dispatch of go-avs              *)
(* (src/message.go): Message, its constructors, Message.Typed, fill, the  *)
(* ten typed variants and their accessors, and encoding/json's treatment  *)
(* of the variants' struct layout.                                        *)
(*                                                                         *)
(* Go strings are sequences of one-character strings, so that             *)
(* concatenation, prefix tests and slicing are computed, not assumed.     *)
(* float64 values are exact binary expansions rounded to 53 significant   *)
(* bits (round to nearest, ties to even), time.Duration is an integer     *)
(* number of nanoseconds.                                                  *)
(***************************************************************************)
EXTENDS Integers, Sequences, FiniteSets, TLC

VARIABLES cur, prev, op, ret

vars == <<cur, prev, op, ret>>

----------------------------------------------------------------------------
(* Strings                                                                 *)

\* The string literals of message.go, character by character.
sAudioPlayer == <<"A", "u", "d", "i", "o", "P", "l", "a", "y", "e", "r">>
sSpeechRecognizer == <<"S", "p", "e", "e", "c", "h", "R", "e", "c", "o", "g", "n", "i", "z", "e", "r">>
sSpeechSynthesizer == <<"S", "p", "e", "e", "c", "h", "S", "y", "n", "t", "h", "e", "s", "i", "z", "e", "r">>
sSystem == <<"S", "y", "s", "t", "e", "m">>
sClearQueue == <<"C", "l", "e", "a", "r", "Q", "u", "e", "u", "e">>
sPlay == <<"P", "l", "a", "y">>
sPlaybackState == <<"P", "l", "a", "y", "b", "a", "c", "k", "S", "t", "a", "t", "e">>
sStop == <<"S", "t", "o", "p">>
sExpectSpeech == <<"E", "x", "p", "e", "c", "t", "S", "p", "e", "e", "c", "h">>
sExpectSpeechTimedOut == <<"E", "x", "p", "e", "c", "t", "S", "p", "e", "e", "c", "h", "T", "i", "m", "e", "d", "O", "u", "t">>
sRecognize == <<"R", "e", "c", "o", "g", "n", "i", "z", "e">>
sSpeak == <<"S", "p", "e", "a", "k">>
sException == <<"E", "x", "c", "e", "p", "t", "i", "o", "n">>
sSynchronizeState == <<"S", "y", "n", "c", "h", "r", "o", "n", "i", "z", "e", "S", "t", "a", "t", "e">>
sAudioFormat == <<"A", "U", "D", "I", "O", "_", "L", "1", "6", "_", "R", "A", "T", "E", "_", "1", "6", "0", "0", "0", "_", "C", "H", "A", "N", "N", "E", "L", "S", "_", "1">>
sCloseTalk == <<"C", "L", "O", "S", "E", "_", "T", "A", "L", "K">>
sCidPrefix == <<"c", "i", "d", ":">>
sEmpty == <<>>

\* The case labels of the switch in Message.Typed.
caseAudioPlayerClearQueue == <<"A", "u", "d", "i", "o", "P", "l", "a", "y", "e", "r", ".", "C", "l", "e", "a", "r", "Q", "u", "e", "u", "e">>
caseAudioPlayerPlay == <<"A", "u", "d", "i", "o", "P", "l", "a", "y", "e", "r", ".", "P", "l", "a", "y">>
caseAudioPlayerPlaybackState == <<"A", "u", "d", "i", "o", "P", "l", "a", "y", "e", "r", ".", "P", "l", "a", "y", "b", "a", "c", "k", "S", "t", "a", "t", "e">>
\* Fault: the label misspelt.
caseAudioPlayerStop_Typo == <<"A", "u", "d", "i", "o", "P", "l", "a", "y", "e", "r", ".", "s", "t", "o", "p">>
caseAudioPlayerStop == <<"A", "u", "d", "i", "o", "P", "l", "a", "y", "e", "r", ".", "S", "t", "o", "p">>
caseSpeechRecognizerExpectSpeech == <<"S", "p", "e", "e", "c", "h", "R", "e", "c", "o", "g", "n", "i", "z", "e", "r", ".", "E", "x", "p", "e", "c", "t", "S", "p", "e", "e", "c", "h">>
caseSpeechRecognizerExpectSpeechTimedOut == <<"S", "p", "e", "e", "c", "h", "R", "e", "c", "o", "g", "n", "i", "z", "e", "r", ".", "E", "x", "p", "e", "c", "t", "S", "p", "e", "e", "c", "h", "T", "i", "m", "e", "d", "O", "u", "t">>
caseSpeechRecognizerRecognize == <<"S", "p", "e", "e", "c", "h", "R", "e", "c", "o", "g", "n", "i", "z", "e", "r", ".", "R", "e", "c", "o", "g", "n", "i", "z", "e">>
caseSpeechSynthesizerSpeak == <<"S", "p", "e", "e", "c", "h", "S", "y", "n", "t", "h", "e", "s", "i", "z", "e", "r", ".", "S", "p", "e", "a", "k">>
caseSystemException == <<"S", "y", "s", "t", "e", "m", ".", "E", "x", "c", "e", "p", "t", "i", "o", "n">>
caseSystemSynchronizeState == <<"S", "y", "s", "t", "e", "m", ".", "S", "y", "n", "c", "h", "r", "o", "n", "i", "z", "e", "S", "t", "a", "t", "e">>

\* fmt.Sprintf("%s.%s", a, b)
Sprintf(a, b) == a \o <<".">> \o b

\* strings.HasPrefix(s, prefix)
HasPrefix(s, prefix) ==
    Len(s) >= Len(prefix) /\ SubSeq(s, 1, Len(prefix)) = prefix

\* s[n:]
SliceFrom(s, n) == SubSeq(s, n + 1, Len(s))

----------------------------------------------------------------------------
(* float64 and time.Duration                                               *)

\* A finite float64 is [neg, i, f]: sign, integer part, and the bits after
\* the binary point (most significant first, no trailing zero). The
\* significand of a float64 has 53 bits.
SignificandBits == 53

\* time.Second and time.Millisecond, in nanoseconds.
Second == 1000000000
Millisecond == 1000000

\* The number of bits of n (0 <= n < 2^31).
BitLen(n) ==
    IF n >= 2^30 THEN 31
    ELSE CHOOSE k \in 0..30 : n < 2^k /\ (k = 0 \/ n >= 2^(k - 1))

\* bits without its trailing zeros.
Strip(bits) ==
    LET ones == {j \in 1..Len(bits) : bits[j] = 1}
    IN  IF ones = {} THEN <<>>
        ELSE SubSeq(bits, 1, CHOOSE j \in ones : \A k \in ones : k <= j)

LeadingZeros(bits) ==
    LET ones == {j \in 1..Len(bits) : bits[j] = 1}
    IN  IF ones = {} THEN Len(bits)
        ELSE (CHOOSE j \in ones : \A k \in ones : j <= k) - 1

\* bits + 1 in the last place: [c |-> carry out of the first place, b |-> bits].
Increment(bits) ==
    LET zeros == {j \in 1..Len(bits) : bits[j] = 0}
        last  == CHOOSE j \in zeros : \A k \in zeros : k <= j
    IN  IF zeros = {} THEN [c |-> 1, b |-> [j \in 1..Len(bits) |-> 0]]
        ELSE [c |-> 0,
              b |-> [j \in 1..Len(bits) |->
                        IF j < last THEN bits[j] ELSE IF j = last THEN 1 ELSE 0]]

\* The float64 nearest to the exact value i + 0.bits (ties to even).
RoundToEven(i, bits) ==
    LET keep == IF i > 0 THEN SignificandBits - BitLen(i)
                ELSE LeadingZeros(bits) + SignificandBits
    IN  IF Len(bits) <= keep THEN [i |-> i, f |-> Strip(bits)]
        ELSE LET head   == SubSeq(bits, 1, keep)
                 half   == bits[keep + 1]
                 sticky == \E j \in (keep + 2)..Len(bits) : bits[j] = 1
                 lsb    == IF keep = 0 THEN i % 2 ELSE head[keep]
                 up     == half = 1 /\ (sticky \/ lsb = 1)
                 inc    == Increment(head)
             IN  IF up THEN [i |-> i + inc.c, f |-> Strip(inc.b)]
                 ELSE [i |-> i, f |-> Strip(head)]

\* n bits of the binary expansion of r/q (0 <= r < q), and what is left:
\* [b |-> bits, r |-> remainder].
RECURSIVE LongDivision(_, _, _)
LongDivision(r, q, n) ==
    IF n = 0 THEN [b |-> <<>>, r |-> r]
    ELSE IF n = 1
    THEN LET bit == IF 2 * r >= q THEN 1 ELSE 0
         IN  [b |-> <<bit>>, r |-> 2 * r - bit * q]
    ELSE LET hi == LongDivision(r, q, n \div 2)
             lo == LongDivision(hi.r, q, n - n \div 2)
         IN  [b |-> hi.b \o lo.b, r |-> lo.r]

Magnitude(n) == IF n < 0 THEN -n ELSE n

\* float64(n) for an integer n (exact below 2^53).
Float64(n) == [neg |-> n < 0, i |-> Magnitude(n), f |-> <<>>]

\* x / float64(q) for an integer-valued x with |x| < q: the quotient's
\* expansion beyond the last significand bit and the rounding bit, a sticky
\* bit for the rest, rounded.
FloatQuo(x, q) ==
    LET d == LongDivision(x.i, q, BitLen(q) + SignificandBits + 1)
        m == RoundToEven(0, d.b \o (IF d.r = 0 THEN <<>> ELSE <<1>>))
    IN  [neg |-> x.neg /\ (m.i > 0 \/ m.f # <<>>), i |-> m.i, f |-> m.f]

IsZero(x) == x.i = 0 /\ x.f = <<>>

\* x + y for an integer-valued x and a y of the same sign (or zero) with
\* |y| < 1: the exact sum has x's integer part and y's expansion.
FloatAdd(x, y) ==
    LET m == RoundToEven(x.i, y.f)
    IN  [neg |-> IF IsZero(x) THEN y.neg ELSE x.neg, i |-> m.i, f |-> m.f]

\* The integer whose binary digits are bits.
RECURSIVE BitsValue(_)
BitsValue(bits) ==
    IF bits = <<>> THEN 0
    ELSE IF Len(bits) = 1 THEN bits[1]
    ELSE LET n == Len(bits)
             h == n \div 2
         IN  BitsValue(SubSeq(bits, 1, h)) * 2^(n - h)
                 + BitsValue(SubSeq(bits, h + 1, n))

\* The n binary digits of v (0 <= v < 2^n).
ValueBits(v, n) == [j \in 1..n |-> (v \div 2^(n - j)) % 2]

\* 0.bits * k, exactly, twenty bits at a time from the last place:
\* [c |-> the integer part, b |-> the bits] (k <= 1000).
RECURSIVE MulBits(_, _)
MulBits(bits, k) ==
    LET n == Len(bits)
    IN  IF n <= 20
        THEN LET v == BitsValue(bits) * k
             IN  [c |-> v \div 2^n, b |-> ValueBits(v % 2^n, n)]
        ELSE LET rest == MulBits(SubSeq(bits, 21, n), k)
                 v    == BitsValue(SubSeq(bits, 1, 20)) * k + rest.c
             IN  [c |-> v \div 2^20, b |-> ValueBits(v % 2^20, 20) \o rest.b]

\* x * float64(k) for a positive integer k.
FloatMul(x, k) ==
    LET p == MulBits(x.f, k)
        m == RoundToEven(x.i * k + p.c, p.b)
    IN  [neg |-> x.neg, i |-> m.i, f |-> m.f]

\* int64(x): the conversion truncates toward zero.
Truncate(x) == IF x.neg THEN -x.i ELSE x.i

\* Go's / and % on integers truncate toward zero.
GoQuo(a, b) == IF a < 0 THEN -((-a) \div b) ELSE a \div b
GoRem(a, b) == a - b * GoQuo(a, b)

\* A time.Duration d (int64 nanoseconds) is held as [sec |-> d / Second,
\* nsec |-> d % Second], the quotient and remainder Duration.Seconds takes:
\* the nanosecond counts of this model exceed the 32 bits of TLC's
\* integers, and stay far below the 64 of Go's.
Duration(sec, nsec) == [sec |-> sec, nsec |-> nsec]

\* time.Duration(n) * time.Millisecond
TimesMillisecond(n) ==
    Duration(GoQuo(n, Second \div Millisecond),
             GoRem(n, Second \div Millisecond) * Millisecond)

\* time.Duration.Seconds
Seconds(d) ==
    LET sec  == d.sec
        nsec == d.nsec
    IN  FloatAdd(Float64(sec), FloatQuo(Float64(nsec), Second))

\* offset.Seconds() * 1000, the offsetInMilliseconds NewPlaybackState stores.
OffsetInMilliseconds(offset) == FloatMul(Seconds(offset), 1000)

\* time.Duration(ms) * time.Millisecond
MillisecondsToDuration(ms) == TimesMillisecond(Truncate(ms))

----------------------------------------------------------------------------
(* JSON                                                                    *)

\* A JSON value as encoding/json scans it. An object keeps its members in
\* document order; a member is [k |-> key, v |-> value].
JNull == [t |-> "null"]
JBool == [t |-> "bool"]
JArray == [t |-> "array"]
JString(s) == [t |-> "string", s |-> s]
JNumber(x) == [t |-> "number", n |-> x]
JObject(members) == [t |-> "object", m |-> members]
Member(k, v) == [k |-> k, v |-> v]

\* A json.RawMessage: no bytes at all, bytes that are not JSON, or the bytes
\* of one JSON value.
RawNil == [bytes |-> "nil", v |-> JNull]
RawInvalid == [bytes |-> "invalid", v |-> JNull]
RawJSON(v) == [bytes |-> "json", v |-> v]

\* encoding/json matches an object key to a struct field by its exact name,
\* and failing that by its name with the case folded.
FoldName(k) ==
    CASE k = "Code" -> "code"
      [] k = "Format" -> "format"
      [] k = "URL" -> "url"
      [] OTHER -> k

\* The types of the payload fields that message.go names and another file of
\* the package declares: the three enumerations hold strings, AudioItem is a
\* nested structure.
ClearBehavior == "string"
PlayBehavior == "string"
PlayerActivity == "string"
AudioItem == "struct"

Field(go, json, type) == [go |-> go, json |-> json, type |-> type]

\* The Payload struct of each variant: its fields in declaration order, each
\* with its Go name, its JSON name (the tag, or the Go name of an untagged
\* field) and its type.
PayloadFields(kind) ==
    CASE kind = "ClearQueue" ->
            <<Field("ClearBehavior", "clearBehavior", ClearBehavior)>>
      [] kind = "Exception" ->
            <<Field("Code", "code", "string"),
              Field("Description", "description", "string")>>
      [] kind = "ExpectSpeech" ->
            <<Field("TimeoutInMilliseconds", "timeoutInMilliseconds", "float64")>>
      [] kind = "Play" ->
            <<Field("AudioItem", "audioItem", AudioItem),
              Field("PlayBehavior", "playBehavior", PlayBehavior)>>
      [] kind = "PlaybackState" ->
            <<Field("Token", "token", "string"),
              Field("OffsetInMilliseconds", "offsetInMilliseconds", "float64"),
              Field("PlayerActivity", "playerActivity", PlayerActivity)>>
      [] kind = "Recognize" ->
            <<Field("Profile", "profile", "string"),
              Field("Format", "format", "string")>>
      [] kind = "Speak" ->
            <<Field("Format", "Format", "string"),
              Field("URL", "URL", "string")>>
      [] OTHER -> <<>>

\* Whether the variant's Payload field carries the tag `json:"payload"`.
PayloadTagged(kind) == kind # "PlaybackState"

\* The zero value of a Go type.
Zero(type) ==
    CASE type = "string" -> sEmpty
      [] type = "float64" -> Float64(0)
      [] type = "struct" -> [t |-> "struct", from |-> <<>>]

\* new(T).Payload: every field at its zero value.
ZeroPayload(kind) ==
    LET fields == PayloadFields(kind)
    IN  [g \in {fields[i].go : i \in 1..Len(fields)} |->
            Zero((CHOOSE f \in {fields[i] : i \in 1..Len(fields)} : f.go = g).type)]

\* Whether a JSON value can be stored in a field of the type.
Accepts(type, v) ==
    \/ type = "string" /\ v.t = "string"
    \/ type = "float64" /\ v.t = "number"
    \/ type = "struct" /\ v.t = "object"

\* The Go value a JSON value stores.
Stored(type, v) ==
    CASE type = "string" -> v.s
      [] type = "float64" -> v.n
      [] type = "struct" -> [t |-> "struct", from |-> v.m]

\* The index of the field an object key names, 0 when it names none.
FieldFor(fields, k) ==
    LET exact  == {i \in 1..Len(fields) : fields[i].json = k}
        folded == {i \in 1..Len(fields) : FoldName(fields[i].json) = FoldName(k)}
        hits   == IF exact # {} THEN exact ELSE folded
    IN  IF hits = {} THEN 0 ELSE CHOOSE i \in hits : \A j \in hits : i <= j

\* The decoder's walk over the members of an object: a key that names no
\* field is skipped, null stores nothing, a value of the wrong type is an
\* UnmarshalTypeError that is remembered while the walk goes on.
RECURSIVE DecodeObject(_, _, _)
DecodeObject(members, fields, dst) ==
    IF members = <<>> THEN dst
    ELSE LET mem == Head(members)
             i   == FieldFor(fields, mem.k)
         IN  IF i = 0 \/ mem.v.t = "null" \/ ~Accepts(fields[i].type, mem.v)
             THEN DecodeObject(Tail(members), fields, dst)
             ELSE DecodeObject(Tail(members), fields,
                      [dst EXCEPT ![fields[i].go] = Stored(fields[i].type, mem.v)])

\* Fault: a decoder that gives up on the object at the first value of the
\* wrong type.
Unmarshal_Strict(data, fields, dst) ==
    IF data.bytes # "json" \/ data.v.t # "object" THEN dst
    ELSE IF \E i \in 1..Len(data.v.m) :
                LET j == FieldFor(fields, data.v.m[i].k)
                IN  j # 0 /\ data.v.m[i].v.t # "null"
                          /\ ~Accepts(fields[j].type, data.v.m[i].v)
         THEN dst
         ELSE DecodeObject(data.v.m, fields, dst)

\* json.Unmarshal(data, &dst) for a struct dst, the error dropped: bytes that
\* are not JSON (none at all included) fail before anything is stored, null
\* stores nothing, a value that is no object is an UnmarshalTypeError.
Unmarshal(data, fields, dst) ==
    IF data.bytes # "json" THEN dst
    ELSE IF data.v.t = "object" THEN DecodeObject(data.v.m, fields, dst)
    ELSE dst

----------------------------------------------------------------------------
(* Message, its constructors and its methods                               *)

\* Fault: a missing key read as the text of a nil value.
HeaderGet_NoDefault(header, k) ==
    IF k \in DOMAIN header THEN header[k] ELSE <<"<", "n", "i", "l", ">">>

\* m.Header[k]: a key the map does not hold reads as "".
HeaderGet(header, k) == IF k \in DOMAIN header THEN header[k] ELSE sEmpty

Message(header, payload) == [Header |-> header, Payload |-> payload]

NewContext(namespace, name) ==
    Message([namespace |-> namespace, name |-> name], RawNil)

\* Fault: dialogRequestId stored whether or not it is empty.
NewEvent_Always(namespace, name, messageId, dialogRequestId) ==
    Message([namespace |-> namespace, name |-> name, messageId |-> messageId,
             dialogRequestId |-> dialogRequestId], RawNil)

NewEvent(namespace, name, messageId, dialogRequestId) ==
    LET m == Message([namespace |-> namespace, name |-> name,
                      messageId |-> messageId], RawNil)
    IN  IF dialogRequestId # sEmpty
        THEN [m EXCEPT !.Header = m.Header @@ ("dialogRequestId" :> dialogRequestId)]
        ELSE m

\* A TypedMessage is [kind, Message, Payload]: the concrete type, the
\* embedded *Message and the typed Payload struct. A *Message itself has
\* kind "Message" and no typed payload.
Generic(m) == [kind |-> "Message", Message |-> m, Payload |-> <<>>]

GetMessage(t) == t.Message

\* Fault: the format string without its '.'.
String_NoSeparator(m) ==
    HeaderGet(m.Header, "namespace") \o HeaderGet(m.Header, "name")

String(m) == Sprintf(HeaderGet(m.Header, "namespace"), HeaderGet(m.Header, "name"))

\* Fault: the Message field of the new value left unset.
fill_NoMessage(kind, src) ==
    [kind |-> kind, Message |-> Message(<<>>, RawNil),
     Payload |-> Unmarshal(src.Payload, PayloadFields(kind), ZeroPayload(kind))]

\* fill(new(T), src): T's Payload is a struct for each of the ten variants,
\* so the early return is never taken.
fill(kind, src) ==
    [kind |-> kind, Message |-> src,
     Payload |-> Unmarshal(src.Payload, PayloadFields(kind), ZeroPayload(kind))]

Typed(m) ==
    LET s == String(m)
    IN  CASE s = caseAudioPlayerClearQueue -> fill("ClearQueue", m)
          [] s = caseAudioPlayerPlay -> fill("Play", m)
          [] s = caseAudioPlayerPlaybackState -> fill("PlaybackState", m)
          [] s = caseAudioPlayerStop -> fill("Stop", m)
          [] s = caseSpeechRecognizerExpectSpeech -> fill("ExpectSpeech", m)
          [] s = caseSpeechRecognizerExpectSpeechTimedOut ->
                 fill("ExpectSpeechTimedOut", m)
          [] s = caseSpeechRecognizerRecognize -> fill("Recognize", m)
          [] s = caseSpeechSynthesizerSpeak -> fill("Speak", m)
          [] s = caseSystemException -> fill("Exception", m)
          [] s = caseSystemSynchronizeState -> fill("SynchronizeState", m)
          [] OTHER -> Generic(m)

Timeout(t) == MillisecondsToDuration(t.Payload["TimeoutInMilliseconds"])

NewExpectSpeechTimedOut(messageId) ==
    [kind |-> "ExpectSpeechTimedOut",
     Message |-> NewEvent(sSpeechRecognizer, sExpectSpeechTimedOut, messageId, sEmpty),
     Payload |-> ZeroPayload("ExpectSpeechTimedOut")]

DialogRequestId(t) == HeaderGet(t.Message.Header, "dialogRequestId")

MessageId(t) == HeaderGet(t.Message.Header, "messageId")

NewPlaybackState(token, offset, activity) ==
    [kind |-> "PlaybackState",
     Message |-> NewContext(sAudioPlayer, sPlaybackState),
     Payload |-> [ZeroPayload("PlaybackState") EXCEPT
                     !["OffsetInMilliseconds"] = OffsetInMilliseconds(offset),
                     !["PlayerActivity"] = activity,
                     !["Token"] = token]]

Offset(t) == MillisecondsToDuration(t.Payload["OffsetInMilliseconds"])

NewRecognize(messageId, dialogRequestId) ==
    [kind |-> "Recognize",
     Message |-> NewEvent(sSpeechRecognizer, sRecognize, messageId, dialogRequestId),
     Payload |-> [ZeroPayload("Recognize") EXCEPT
                     !["Format"] = sAudioFormat,
                     !["Profile"] = sCloseTalk]]

\* Fault: the slice starts one character early.
ContentId_OffByOne(t) ==
    IF ~HasPrefix(t.Payload["URL"], sCidPrefix) THEN sEmpty
    ELSE SliceFrom(t.Payload["URL"], 3)

ContentId(t) ==
    IF ~HasPrefix(t.Payload["URL"], sCidPrefix) THEN sEmpty
    ELSE SliceFrom(t.Payload["URL"], 4)

NewSynchronizeState(messageId) ==
    [kind |-> "SynchronizeState",
     Message |-> NewEvent(sSystem, sSynchronizeState, messageId, sEmpty),
     Payload |-> ZeroPayload("SynchronizeState")]

\* json.Marshal of a map[string]string: an object, the keys sorted.
EncodeHeader(header) ==
    LET sorted == <<"dialogRequestId", "messageId", "name", "namespace">>
        IsKey(k) == k \in DOMAIN header
        keys == SelectSeq(sorted, IsKey)
    IN  JObject([i \in 1..Len(keys) |-> Member(keys[i], JString(header[keys[i]]))])

EncodeValue(type, x) ==
    CASE type = "string" -> JString(x)
      [] type = "float64" -> JNumber(x)
      [] type = "struct" -> JObject(x.from)

\* json.Marshal of a variant's Payload struct: its fields in order.
EncodePayload(kind, payload) ==
    LET fields == PayloadFields(kind)
    IN  JObject([i \in 1..Len(fields) |->
            Member(fields[i].json, EncodeValue(fields[i].type, payload[fields[i].go]))])

\* The fields encoding/json finds in the struct of a TypedMessage, those of
\* the embedded *Message included, in index order: the JSON name, the
\* embedding depth, whether a tag gives the name, and omitempty.
StructFields(kind) ==
    LET header(d)  == [name |-> "header", depth |-> d, tagged |-> TRUE,
                       omitempty |-> FALSE, of |-> "Header"]
        payload(d) == [name |-> "payload", depth |-> d, tagged |-> TRUE,
                       omitempty |-> TRUE, of |-> "Message.Payload"]
    IN  IF kind = "Message" THEN <<header(0), payload(0)>>
        ELSE <<header(1), payload(1),
               [name |-> IF PayloadTagged(kind) THEN "payload" ELSE "Payload",
                depth |-> 0, tagged |-> PayloadTagged(kind),
                omitempty |-> FALSE, of |-> "Payload"]>>

\* encoding/json's choice among the fields of one JSON name: the shallowest,
\* and of several at that depth the only tagged one, or else none of them.
Dominant(fields) ==
    {i \in 1..Len(fields) :
        LET same  == {j \in 1..Len(fields) : fields[j].name = fields[i].name}
            peers == {j \in same : fields[j].depth = fields[i].depth}
        IN  /\ \A j \in same : fields[j].depth >= fields[i].depth
            /\ \/ peers = {i}
               \/ fields[i].tagged /\ {j \in peers : fields[j].tagged} = {i}}

\* json.Marshal(t): [err |-> whether it fails, v |-> the object written]. A
\* json.RawMessage is written as it is, and one that is not JSON is an error;
\* an omitempty field of length 0 is left out.
Marshal(t) ==
    LET fields  == StructFields(t.kind)
        raw     == t.Message.Payload
        Emitted(i) == /\ i \in Dominant(fields)
                      /\ ~(fields[i].omitempty /\ raw.bytes = "nil")
        idx     == SelectSeq([i \in 1..Len(fields) |-> i], Emitted)
        Value(f) == CASE f.of = "Header" -> EncodeHeader(t.Message.Header)
                      [] f.of = "Message.Payload" -> raw.v
                      [] f.of = "Payload" -> EncodePayload(t.kind, t.Payload)
        err     == \E j \in 1..Len(idx) :
                       fields[idx[j]].of = "Message.Payload" /\ raw.bytes = "invalid"
    IN  IF err THEN [err |-> TRUE, v |-> JNull]
        ELSE [err |-> FALSE,
              v |-> JObject([j \in 1..Len(idx) |->
                        Member(fields[idx[j]].name, Value(fields[idx[j]]))])]

----------------------------------------------------------------------------
(* Inputs                                                                  *)

\* Strings the callers pass and the wire carries.
sAlerts == <<"A", "l", "e", "r", "t", "s">>
sSetAlert == <<"S", "e", "t", "A", "l", "e", "r", "t">>
sM1 == <<"m", "1">>
sM2 == <<"m", "2">>
sD9 == <<"d", "9">>
sTok == <<"t", "o", "k">>
sPlaying == <<"P", "L", "A", "Y", "I", "N", "G">>
sIdle == <<"I", "D", "L", "E">>
sE1 == <<"E", "1">>
sDesc == <<"b", "a", "d", " ", "r", "e", "q", "u", "e", "s", "t">>
sMp3 == <<"A", "U", "D", "I", "O", "_", "M", "P", "E", "G">>
sClearAll == <<"C", "L", "E", "A", "R", "_", "A", "L", "L">>
sEnqueue == <<"E", "N", "Q", "U", "E", "U", "E">>
urlCid == <<"c", "i", "d", ":", "a", "b", "c", "1", "2", "3">>
urlHttps == <<"h", "t", "t", "p", "s", ":", "/", "/", "x", "/", "y">>
urlUpper == <<"C", "I", "D", ":", "a", "b", "c">>
urlBare == <<"c", "i", "d", ":">>
urlShort == <<"c", "i">>
urlNoColon == <<"c", "i", "d">>

\* Whole milliseconds of the offsets handed to NewPlaybackState.
MaxOffsetMs == 1030

Num(i, f) == [neg |-> FALSE, i |-> i, f |-> f]
Neg(x) == [x EXCEPT !.neg = TRUE]

\* The namespace and name values of headers: those of the ten message kinds,
\* the empty string, strings that hold a '.' themselves, unknown ones.
NamespaceInputs ==
    {sEmpty, sAudioPlayer, sSpeechRecognizer, sSpeechSynthesizer, sSystem,
     caseAudioPlayerPlay, sAlerts}

NameInputs ==
    {sEmpty, sClearQueue, sPlay, sPlaybackState, sStop, sExpectSpeech,
     sExpectSpeechTimedOut, sRecognize, sSpeak, sException, sSynchronizeState,
     caseSystemException, sSetAlert}

\* The keys a header holds: none, one of namespace and name, both, and both
\* with messageId and dialogRequestId.
KeySetInputs ==
    {{}, {"namespace"}, {"name"}, {"namespace", "name"},
     {"namespace", "name", "messageId", "dialogRequestId"}}

HeaderOf(keys, namespace, name) ==
    [k \in keys |-> CASE k = "namespace" -> namespace
                      [] k = "name" -> name
                      [] k = "messageId" -> sM1
                      [] k = "dialogRequestId" -> sD9]

UrlInputs == {sEmpty, urlCid, urlHttps, urlUpper, urlBare, urlShort, urlNoColon}

\* Payload bytes: absent, not JSON, JSON that is no object, and objects whose
\* members are missing, of the wrong type, null, unknown, or keyed in another
\* case. No object repeats a key.
PayloadInputs ==
    {RawNil, RawInvalid, RawJSON(JNull), RawJSON(JArray),
     RawJSON(JString(sTok)), RawJSON(JObject(<<>>)),
     RawJSON(JObject(<<Member("code", JNumber(Num(123, <<>>)))>>)),
     RawJSON(JObject(<<Member("code", JString(sE1)),
                       Member("description", JString(sDesc))>>)),
     RawJSON(JObject(<<Member("code", JNumber(Num(123, <<>>))),
                       Member("description", JString(sDesc))>>)),
     RawJSON(JObject(<<Member("description", JString(sDesc)),
                       Member("code", JBool)>>)),
     RawJSON(JObject(<<Member("Code", JString(sE1)),
                       Member("extra", JString(sTok))>>)),
     RawJSON(JObject(<<Member("code", JNull),
                       Member("description", JString(sDesc))>>)),
     RawJSON(JObject(<<Member("timeoutInMilliseconds", JNumber(Num(5000, <<>>)))>>)),
     RawJSON(JObject(<<Member("timeoutInMilliseconds", JNumber(Num(1, <<1>>)))>>)),
     RawJSON(JObject(<<Member("timeoutInMilliseconds", JNumber(Num(0, <<0, 1>>)))>>)),
     RawJSON(JObject(<<Member("timeoutInMilliseconds", JNumber(Neg(Num(2, <<1>>))))>>)),
     RawJSON(JObject(<<Member("timeoutInMilliseconds", JString(sTok))>>)),
     RawJSON(JObject(<<Member("token", JString(sTok)),
                       Member("offsetInMilliseconds", JNumber(Num(1500, <<>>))),
                       Member("playerActivity", JString(sPlaying))>>)),
     RawJSON(JObject(<<Member("token", JNumber(Num(7, <<>>))),
                       Member("offsetInMilliseconds", JNumber(Num(1500, <<1>>))),
                       Member("playerActivity", JArray)>>)),
     RawJSON(JObject(<<Member("profile", JString(sCloseTalk)),
                       Member("format", JString(sAudioFormat))>>)),
     RawJSON(JObject(<<Member("clearBehavior", JString(sClearAll))>>)),
     RawJSON(JObject(<<Member("audioItem", JObject(<<Member("audioItemId", JString(sTok))>>)),
                       Member("playBehavior", JString(sEnqueue))>>)),
     RawJSON(JObject(<<Member("audioItem", JString(sTok)),
                       Member("playBehavior", JNumber(Num(1, <<>>)))>>)),
     RawJSON(JObject(<<Member("URL", JString(urlCid))>>))}
    \cup {RawJSON(JObject(<<Member("format", JString(sMp3)),
                            Member("url", JString(u))>>)) : u \in UrlInputs}

IdInputs == {sEmpty, sM1, sD9}

\* Offsets: whole milliseconds up to the bound, and each half a millisecond on.
OffsetInputs ==
    {Duration(ms \div 1000, (ms % 1000) * Millisecond + sub) :
        ms \in 0..MaxOffsetMs, sub \in {0, Millisecond \div 2}}

----------------------------------------------------------------------------
(* The state machine                                                       *)

\* cur is the TypedMessage the caller holds: [v |-> the value, by |-> the
\* operation that returned it, in |-> that operation's arguments]. prev is
\* the receiver of the last Typed call, op the last operation, ret what the
\* last accessor returned. A behaviour follows one message: it is made once,
\* by a constructor or by the wire, and the methods are then called on it.
Held(v, by, in) == [v |-> v, by |-> by, in |-> in]

None == Held(Generic(Message(<<>>, RawNil)), "none", <<>>)

NoReturn == <<>>

Init ==
    /\ cur = None
    /\ prev = None
    /\ op = "init"
    /\ ret = NoReturn

\* An envelope arrives from the wire, its header and payload as received.
Receive ==
    /\ cur.by = "none"
    /\ \E keys \in KeySetInputs, namespace \in NamespaceInputs,
          name \in NameInputs, payload \in PayloadInputs :
        cur' = Held(Generic(Message(HeaderOf(keys, namespace, name), payload)),
                    "Receive", <<>>)
    /\ prev' = None
    /\ op' = "Receive"
    /\ ret' = NoReturn

DoNewContext ==
    /\ cur.by = "none"
    /\ \E namespace \in NamespaceInputs, name \in NameInputs :
        cur' = Held(Generic(NewContext(namespace, name)), "NewContext",
                    [namespace |-> namespace, name |-> name])
    /\ prev' = None
    /\ op' = "NewContext"
    /\ ret' = NoReturn

DoNewEvent ==
    /\ cur.by = "none"
    /\ \E namespace \in NamespaceInputs, name \in NameInputs,
          messageId \in IdInputs, dialogRequestId \in IdInputs :
        cur' = Held(Generic(NewEvent(namespace, name, messageId, dialogRequestId)),
                    "NewEvent",
                    [namespace |-> namespace, name |-> name,
                     messageId |-> messageId,
                     dialogRequestId |-> dialogRequestId])
    /\ prev' = None
    /\ op' = "NewEvent"
    /\ ret' = NoReturn

DoNewExpectSpeechTimedOut ==
    /\ cur.by = "none"
    /\ \E messageId \in IdInputs :
        cur' = Held(NewExpectSpeechTimedOut(messageId), "NewExpectSpeechTimedOut",
                    [messageId |-> messageId])
    /\ prev' = None
    /\ op' = "NewExpectSpeechTimedOut"
    /\ ret' = NoReturn

DoNewPlaybackState ==
    /\ cur.by = "none"
    /\ \E token \in {sEmpty, sTok}, offset \in OffsetInputs,
          activity \in {sPlaying} :
        cur' = Held(NewPlaybackState(token, offset, activity), "NewPlaybackState",
                    [token |-> token, offset |-> offset, activity |-> activity])
    /\ prev' = None
    /\ op' = "NewPlaybackState"
    /\ ret' = NoReturn

DoNewRecognize ==
    /\ cur.by = "none"
    /\ \E messageId \in IdInputs, dialogRequestId \in IdInputs :
        cur' = Held(NewRecognize(messageId, dialogRequestId), "NewRecognize",
                    [messageId |-> messageId, dialogRequestId |-> dialogRequestId])
    /\ prev' = None
    /\ op' = "NewRecognize"
    /\ ret' = NoReturn

DoNewSynchronizeState ==
    /\ cur.by = "none"
    /\ \E messageId \in IdInputs :
        cur' = Held(NewSynchronizeState(messageId), "NewSynchronizeState",
                    [messageId |-> messageId])
    /\ prev' = None
    /\ op' = "NewSynchronizeState"
    /\ ret' = NoReturn

\* t.Typed() on the value held: for a variant the method is the embedded
\* *Message's.
DoTyped ==
    /\ cur.by # "none"
    /\ prev' = cur
    /\ cur' = Held(Typed(GetMessage(cur.v)), "Typed", <<>>)
    /\ op' = "Typed"
    /\ ret' = NoReturn

DoGetMessage ==
    /\ cur.by # "none"
    /\ op' = "GetMessage"
    /\ ret' = GetMessage(cur.v)
    /\ UNCHANGED <<cur, prev>>

DoString ==
    /\ cur.by # "none"
    /\ op' = "String"
    /\ ret' = String(GetMessage(cur.v))
    /\ UNCHANGED <<cur, prev>>

DoTimeout ==
    /\ cur.v.kind = "ExpectSpeech"
    /\ op' = "Timeout"
    /\ ret' = Timeout(cur.v)
    /\ UNCHANGED <<cur, prev>>

DoOffset ==
    /\ cur.v.kind = "PlaybackState"
    /\ op' = "Offset"
    /\ ret' = Offset(cur.v)
    /\ UNCHANGED <<cur, prev>>

DoContentId ==
    /\ cur.v.kind = "Speak"
    /\ op' = "ContentId"
    /\ ret' = ContentId(cur.v)
    /\ UNCHANGED <<cur, prev>>

DoDialogRequestId ==
    /\ cur.v.kind = "Play"
    /\ op' = "DialogRequestId"
    /\ ret' = DialogRequestId(cur.v)
    /\ UNCHANGED <<cur, prev>>

DoMessageId ==
    /\ cur.v.kind = "Play"
    /\ op' = "MessageId"
    /\ ret' = MessageId(cur.v)
    /\ UNCHANGED <<cur, prev>>

\* json.Marshal(t) on the value held.
DoMarshal ==
    /\ cur.by # "none"
    /\ op' = "Marshal"
    /\ ret' = Marshal(cur.v)
    /\ UNCHANGED <<cur, prev>>

Next ==
    \/ Receive
    \/ DoNewContext
    \/ DoNewEvent
    \/ DoNewExpectSpeechTimedOut
    \/ DoNewPlaybackState
    \/ DoNewRecognize
    \/ DoNewSynchronizeState
    \/ DoTyped
    \/ DoGetMessage
    \/ DoString
    \/ DoTimeout
    \/ DoOffset
    \/ DoContentId
    \/ DoDialogRequestId
    \/ DoMessageId
    \/ DoMarshal

Spec == Init /\ [][Next]_vars

----------------------------------------------------------------------------
(* Properties                                                              *)

\* The registry of section 3 of the specification: the ten (namespace, name)
\* pairs and the variant of each.
Registry ==
    {[namespace |-> sAudioPlayer, name |-> sClearQueue, kind |-> "ClearQueue"],
     [namespace |-> sAudioPlayer, name |-> sPlay, kind |-> "Play"],
     [namespace |-> sAudioPlayer, name |-> sPlaybackState, kind |-> "PlaybackState"],
     [namespace |-> sAudioPlayer, name |-> sStop, kind |-> "Stop"],
     [namespace |-> sSpeechRecognizer, name |-> sExpectSpeech, kind |-> "ExpectSpeech"],
     [namespace |-> sSpeechRecognizer, name |-> sExpectSpeechTimedOut,
      kind |-> "ExpectSpeechTimedOut"],
     [namespace |-> sSpeechRecognizer, name |-> sRecognize, kind |-> "Recognize"],
     [namespace |-> sSpeechSynthesizer, name |-> sSpeak, kind |-> "Speak"],
     [namespace |-> sSystem, name |-> sException, kind |-> "Exception"],
     [namespace |-> sSystem, name |-> sSynchronizeState, kind |-> "SynchronizeState"]}

\* The value a header gives a key, the empty string when it has none.
HeaderValue(header, k) == IF k \in DOMAIN header THEN header[k] ELSE <<>>

InRegistry(header, r) ==
    /\ HeaderValue(header, "namespace") = r.namespace
    /\ HeaderValue(header, "name") = r.name

\* C1: Typed() on an envelope whose header holds one of the ten registry
\* pairs returns the variant of that pair, and that of no other pair,
\* whatever the other header keys and whatever the payload.
C1_RegistryPairTyped ==
    op = "Typed" =>
        \A r \in Registry :
            InRegistry(prev.v.Message.Header, r) =>
                /\ cur.v.kind = r.kind
                /\ \A q \in Registry \ {r} : cur.v.kind # q.kind

\* An Exception envelope with further header keys and bytes that are not
\* JSON has been typed.
C1_Witness ==
    /\ op = "Typed"
    /\ prev.by = "Receive"
    /\ DOMAIN prev.v.Message.Header =
           {"namespace", "name", "messageId", "dialogRequestId"}
    /\ prev.v.Message.Header["namespace"] = sSystem
    /\ prev.v.Message.Header["name"] = sException
    /\ prev.v.Message.Payload = RawInvalid
    /\ cur.v.kind = "Exception"

\* C2: Typed() on an envelope whose (namespace, name) pair is none of the
\* ten returns the envelope itself, header and payload as they were.
C2_UnknownPairGeneric ==
    op = "Typed" =>
        ((\A r \in Registry : ~InRegistry(prev.v.Message.Header, r)) =>
            /\ cur.v.kind = "Message"
            /\ cur.v.Message.Header = prev.v.Message.Header
            /\ cur.v.Message.Payload = prev.v.Message.Payload)

\* The envelope with namespace "AudioPlayer.Play" and name "" has been typed.
C2_Witness ==
    /\ op = "Typed"
    /\ prev.by = "Receive"
    /\ DOMAIN prev.v.Message.Header = {"namespace", "name"}
    /\ prev.v.Message.Header["namespace"] = caseAudioPlayerPlay
    /\ prev.v.Message.Header["name"] = <<>>
    /\ cur.v.kind = "Message"

\* The members of the payload object of an envelope, none when the bytes are
\* absent, are not JSON, or hold no object.
WireMembers(m) ==
    IF m.Payload.bytes = "json" /\ m.Payload.v.t = "object"
    THEN m.Payload.v.m ELSE <<>>

WellTyped(type, v) ==
    \/ type = "string" /\ v.t = "string"
    \/ type = "float64" /\ v.t = "number"
    \/ type = "struct" /\ v.t = "object"

WireValue(type, v) ==
    CASE type = "string" -> v.s
      [] type = "float64" -> v.n
      [] type = "struct" -> [t |-> "struct", from |-> v.m]

\* C3: for a known discriminator Typed() returns the variant whatever the
\* payload bytes; a field whose wire value is well typed holds it, every
\* other field holds its zero value, and GetMessage() gives the input
\* envelope, header and raw payload unchanged.
C3_LenientDecode ==
    (op = "Typed" /\ cur.v.kind # "Message") =>
        LET members == WireMembers(prev.v.Message)
            fields  == PayloadFields(cur.v.kind)
        IN  /\ GetMessage(cur.v) = prev.v.Message
            /\ \A i \in 1..Len(fields) :
                   LET f    == fields[i]
                       hits == {j \in 1..Len(members) :
                                   /\ FoldName(members[j].k) = FoldName(f.json)
                                   /\ WellTyped(f.type, members[j].v)}
                   IN  IF hits = {} THEN cur.v.Payload[f.go] = Zero(f.type)
                       ELSE \A j \in hits :
                                cur.v.Payload[f.go] = WireValue(f.type, members[j].v)

\* An Exception whose code is a number and whose description is a string has
\* been typed: the code is empty, the description is kept.
C3_Witness ==
    /\ op = "Typed"
    /\ cur.v.kind = "Exception"
    /\ WireMembers(prev.v.Message) =
           <<Member("code", JNumber(Num(123, <<>>))),
             Member("description", JString(sDesc))>>
    /\ cur.v.Payload["Code"] = <<>>
    /\ cur.v.Payload["Description"] = sDesc

\* C4: NewEvent returns an envelope with no payload whose header holds
\* namespace, name and messageId as given, and dialogRequestId exactly when
\* the value given is not empty.
C4_NewEventHeader ==
    cur.by = "NewEvent" =>
        LET h == GetMessage(cur.v).Header
        IN  /\ GetMessage(cur.v).Payload.bytes = "nil"
            /\ DOMAIN h = {"namespace", "name", "messageId"}
                   \cup (IF cur.in.dialogRequestId = <<>> THEN {}
                         ELSE {"dialogRequestId"})
            /\ h["namespace"] = cur.in.namespace
            /\ h["name"] = cur.in.name
            /\ h["messageId"] = cur.in.messageId
            /\ cur.in.dialogRequestId # <<>> =>
                   h["dialogRequestId"] = cur.in.dialogRequestId

\* NewEvent("System", "SynchronizeState", "m1", "") has returned a header
\* without the dialogRequestId key.
C4_Witness ==
    /\ op = "NewEvent"
    /\ cur.in.namespace = sSystem
    /\ cur.in.name = sSynchronizeState
    /\ cur.in.messageId = sM1
    /\ cur.in.dialogRequestId = <<>>
    /\ "dialogRequestId" \notin DOMAIN cur.v.Message.Header

\* C5: serializing a variant writes the envelope's header under "header" and
\* the typed payload under the single key "payload", for each of the ten
\* kinds, however the variant was made.
C5_HeaderAndPayload ==
    (op = "Marshal" /\ cur.v.kind # "Message") =>
        /\ ~ret.err
        /\ Len(ret.v.m) = 2
        /\ ret.v.m[1].k = "header"
        /\ \A k \in DOMAIN cur.v.Message.Header :
               \E i \in 1..Len(ret.v.m[1].v.m) :
                   ret.v.m[1].v.m[i] = Member(k, JString(cur.v.Message.Header[k]))
        /\ ret.v.m[2] = Member("payload", EncodePayload(cur.v.kind, cur.v.Payload))

\* C6: for an offset of whole milliseconds,
\* NewPlaybackState(token, d, activity).Offset() is d.
C6_OffsetRoundTrip ==
    (op = "Offset" /\ cur.by = "NewPlaybackState"
        /\ cur.in.offset.nsec % Millisecond = 0) =>
        ret = cur.in.offset

\* The duration of x milliseconds, for an x of at most six bits after the
\* binary point.
ExactMilliseconds(x) ==
    LET sign == IF x.neg THEN -1 ELSE 1
        frac == BitsValue(x.f) * (Millisecond \div 2^Len(x.f))
    IN  Duration(sign * (x.i \div 1000),
                 sign * ((x.i % 1000) * Millisecond + frac))

\* C7: ExpectSpeech.Timeout() is the decoded timeoutInMilliseconds as a
\* duration, fractions of a millisecond included.
C7_TimeoutExact ==
    op = "Timeout" =>
        ret = ExactMilliseconds(cur.v.Payload["TimeoutInMilliseconds"])

\* C8: Speak.ContentId() is the url after its first four characters when
\* these are exactly "cid:", and the empty string for every other url.
C8_ContentId ==
    op = "ContentId" =>
        LET url == cur.v.Payload["URL"]
        IN  IF /\ Len(url) >= 4
               /\ url[1] = "c" /\ url[2] = "i" /\ url[3] = "d" /\ url[4] = ":"
            THEN ret = [i \in 1..(Len(url) - 4) |-> url[i + 4]]
            ELSE ret = <<>>

\* ContentId() of the url "cid:abc123" has returned "abc123".
C8_Witness ==
    /\ op = "ContentId"
    /\ cur.v.Payload["URL"] = urlCid
    /\ ret = <<"a", "b", "c", "1", "2", "3">>

\* C9: String() is the namespace header value, one '.', and the name header
\* value, a value the header does not hold counting as empty.
C9_Discriminator ==
    op = "String" =>
        LET namespace == HeaderValue(cur.v.Message.Header, "namespace")
            name      == HeaderValue(cur.v.Message.Header, "name")
        IN  /\ Len(ret) = Len(namespace) + 1 + Len(name)
            /\ SubSeq(ret, 1, Len(namespace)) = namespace
            /\ ret[Len(namespace) + 1] = "."
            /\ SubSeq(ret, Len(namespace) + 2, Len(ret)) = name

\* String() of an envelope whose header is empty has returned ".".
C9_Witness ==
    /\ op = "String"
    /\ cur.by = "Receive"
    /\ DOMAIN cur.v.Message.Header = {}
    /\ ret = <<".">>

\* C10: t.Typed() on a variant t, returned by Typed() or built by a
\* constructor, is a variant of t's kind with t's typed payload fields.
C10_TypedIdempotent ==
    (op = "Typed" /\ prev.v.kind # "Message") =>
        /\ cur.v.kind = prev.v.kind
        /\ cur.v.Payload = prev.v.Payload

\* C10 as the code has it: t.Typed() on a variant t is a variant of t's
\* kind over t's envelope whose payload fields are decoded anew from the
\* envelope's raw payload: t's fields when t was returned by Typed(), the
\* zero values when t was built by a constructor, which stores no raw payload.
C10_TypedRedecodes ==
    (op = "Typed" /\ prev.v.kind # "Message") =>
        /\ cur.v.kind = prev.v.kind
        /\ GetMessage(cur.v) = GetMessage(prev.v)
        /\ cur.v.Payload = IF prev.by = "Typed" THEN prev.v.Payload
                           ELSE ZeroPayload(prev.v.kind)

\* NewRecognize(...).Typed() has returned a Recognize whose format and
\* profile are empty.
C10_Witness ==
    /\ op = "Typed"
    /\ prev.by = "NewRecognize"
    /\ prev.v.Payload["Format"] = sAudioFormat
    /\ prev.v.Payload["Profile"] = sCloseTalk
    /\ cur.v.kind = "Recognize"
    /\ cur.v.Payload["Format"] = <<>>
    /\ cur.v.Payload["Profile"] = <<>>
=============================================================================
